---- MODULE Spec2Model ----
(***************************************************************************)
(* Model of steps/flat2elisa.py: the conversion of flat text files, named  *)
(* SOURCE_GENRE_PROVENANCE_DATE_INDEX.ext, into one ELISA LRLP XML corpus. *)
(*                                                                         *)
(* Strings are sequences of one-character strings, so that splitting,      *)
(* stripping, number formatting and XML escaping are computed the way the  *)
(* code computes them.  A path is a sequence of components.                *)
(***************************************************************************)
EXTENDS Integers, Sequences, FiniteSets, TLC

(* ------------------------------ bounds -------------------------------- *)

\* longest list of paths given with --infiles
MaxInfiles == 2
\* most lines read from the input files in one run
MaxTotalLines == 3

(* --------------------------- string helpers --------------------------- *)

\* characters str.strip() removes
Whitespace == {" ", "\n", "\t"}

\* characters lxml refuses in text ("All strings must be XML compatible")
XmlInvalid == {"NUL"}

RECURSIVE lstrip(_)
lstrip(s) == IF s # <<>> /\ Head(s) \in Whitespace THEN lstrip(Tail(s)) ELSE s

RECURSIVE rstrip(_)
rstrip(s) ==
  IF s # <<>> /\ s[Len(s)] \in Whitespace THEN rstrip(SubSeq(s, 1, Len(s) - 1)) ELSE s

\* str.strip()
strip(s) == rstrip(lstrip(s))

\* str.split(sep): the pieces between the occurrences of sep, at least one
RECURSIVE split(_, _)
split(s, sep) ==
  IF \A i \in 1..Len(s) : s[i] # sep
  THEN <<s>>
  ELSE LET i == CHOOSE j \in 1..Len(s) : s[j] = sep /\ \A k \in 1..(j - 1) : s[k] # sep
       IN  <<SubSeq(s, 1, i - 1)>> \o split(SubSeq(s, i + 1, Len(s)), sep)

Digits == <<"0", "1", "2", "3", "4", "5", "6", "7", "8", "9">>

\* str(n) of an integer
RECURSIVE str(_)
str(n) ==
  IF n < 0 THEN <<"-">> \o str(0 - n)
  ELSE IF n < 10 THEN <<Digits[n + 1]>>
  ELSE str(n \div 10) \o <<Digits[(n % 10) + 1]>>

\* os.path.basename of a path: its last component
basename(path) == path[Len(path)]

\* os.path.join(entry, filename)
join(entry, filename) == Append(entry, filename)

(* ---------------------------- XML escaping ---------------------------- *)

\* what lxml writes for one character of element text
EscTextChar(c) ==
  CASE c = "&" -> <<"&", "a", "m", "p", ";">>
    [] c = "<" -> <<"&", "l", "t", ";">>
    [] c = ">" -> <<"&", "g", "t", ";">>
    [] OTHER   -> <<c>>

\* what lxml writes for one character of an attribute value
EscAttrChar(c) ==
  CASE c = "\"" -> <<"&", "q", "u", "o", "t", ";">>
    [] c = "\n" -> <<"&", "#", "1", "0", ";">>
    [] c = "\t" -> <<"&", "#", "9", ";">>
    [] OTHER    -> EscTextChar(c)

RECURSIVE EscText(_)
EscText(s) == IF s = <<>> THEN <<>> ELSE EscTextChar(Head(s)) \o EscText(Tail(s))

RECURSIVE EscAttr(_)
EscAttr(s) == IF s = <<>> THEN <<>> ELSE EscAttrChar(Head(s)) \o EscAttr(Tail(s))

\* str.format / % interpolation: the value is copied as it is
Interpolate(s) == s

(* --------------------------- the file system -------------------------- *)

\* &_<_"_d_e.t_x : five tokens before the first ".", with the characters XML
\* reserves
NameValid == <<"&", "_", "<", "_", "\"", "_", "d", "_", "e", ".", "t", "_", "x">>
\* a_b_c_d.t : four tokens
NameFour == <<"a", "_", "b", "_", "c", "_", "d", ".", "t">>
\* a_b_c_d_e_f : six tokens
NameSix == <<"a", "_", "b", "_", "c", "_", "d", "_", "e", "_", "f">>
NameSub == <<"s", "u", "b">>

PathMissing == <<<<"g", "o", "n", "e">>>>
PathFile == <<NameValid>>
PathDir == <<<<"d">>>>
PathLocked == <<<<"l", "o", "c", "k">>>>
PathFifo == <<<<"f", "i", "f", "o">>>>

\* the paths --infiles may name
Paths == {PathMissing, PathFile, PathDir, PathLocked, PathFifo}

\* what the file system holds at a path: "file" a regular file, "dir" a
\* readable directory, "locked" a directory that cannot be listed, "special"
\* something that is neither (a fifo, a socket, a device), "missing" nothing
Kind(path) ==
  CASE path = PathFile -> "file"
    [] path = PathDir -> "dir"
    [] path = join(PathDir, NameFour) -> "file"
    [] path = join(PathDir, NameSub) -> "dir"
    [] path = join(PathDir, NameSix) -> "file"
    [] path = join(join(PathDir, NameSub), NameValid) -> "file"
    [] path = PathLocked -> "locked"
    [] path = PathFifo -> "special"
    [] OTHER -> "missing"

\* the names os.listdir returns for a readable directory, in its order
Listing(path) ==
  CASE path = PathDir -> <<NameFour, NameSub, NameSix>>
    [] path = join(PathDir, NameSub) -> <<NameValid>>
    [] OTHER -> <<>>

\* os.path.exists
exists(path) == Kind(path) # "missing"

\* os.path.isfile
isfile(path) == Kind(path) = "file"

\* os.listdir raises OSError for what is no directory or cannot be read
ListdirRaises(path) == Kind(path) # "dir"

\* the lines a file may hold, each with its line terminator
LineEmpty == <<"\n">>
LineMarkup == <<" ", "a", "<", "&", "\"", "b", "\t", "\n">>
LineControl == <<"a", "NUL", "\n">>
RawLines == {LineEmpty, LineMarkup, LineControl}

LanguagePlain == <<"e", "n", "g">>
LanguageMarkup == <<"<", "&", "\"">>
DirectionDefault == <<"f", "r", "o", "m">>
DirectionMarkup == <<"a", "&", "b">>

\* the command lines: every combination of the debug flag with the
\* destination --outfile names (none given, that is standard output; a path
\* that can be opened for writing; a path that cannot), with plain values of
\* --language and --direction or with values holding the characters XML
\* reserves
CommandLines ==
  {[debug |-> FALSE, outfile |-> "stdout", language |-> LanguagePlain,
    direction |-> DirectionDefault],
   [debug |-> TRUE, outfile |-> "stdout", language |-> LanguageMarkup,
    direction |-> DirectionMarkup],
   [debug |-> FALSE, outfile |-> "path", language |-> LanguageMarkup,
    direction |-> DirectionMarkup],
   [debug |-> TRUE, outfile |-> "path", language |-> LanguagePlain,
    direction |-> DirectionDefault],
   [debug |-> FALSE, outfile |-> "unwritable", language |-> LanguagePlain,
    direction |-> DirectionDefault],
   [debug |-> TRUE, outfile |-> "unwritable", language |-> LanguageMarkup,
    direction |-> DirectionMarkup]}

RECURSIVE SeqsUpTo(_, _)
SeqsUpTo(S, n) ==
  IF n = 0 THEN {<<>>}
  ELSE LET shorter == SeqsUpTo(S, n - 1)
       IN  shorter \cup {Append(q, x) : q \in shorter, x \in S}

(* ------------------------------- state -------------------------------- *)

VARIABLES
  pc,            \* where main() is
  debug,         \* args.debug
  outfile,       \* args.outfile
  language,      \* args.language
  direction,     \* args.direction
  infiles,       \* args.infiles
  workdir,       \* the temporary directory: "none", "present", "removed"
  registered,    \* cleanwork is registered with atexit
  infilenames,   \* the resolved file list
  ei,            \* index of the next entry of infiles
  fi,            \* index of the next file of infilenames
  ln,            \* index of the next line of the current file
  currstart,     \* the offset cursor
  stdout,        \* what was written to standard output
  stderr,        \* what was written to standard error
  outf,          \* what was written to the file --outfile names
  total,         \* lines read in this run
  docs,          \* per file reached by the loop: what happened to it
  exitCause,     \* why the process ended
  exitStatus     \* its exit status

vars == <<pc, debug, outfile, language, direction, infiles, workdir, registered,
          infilenames, ei, fi, ln, currstart, stdout, stderr, outf, total, docs,
          exitCause, exitStatus>>

args == <<debug, outfile, language, direction, infiles>>

fullidfields == <<"SOURCE_LANGUAGE", "GENRE", "PROVENANCE", "DATE", "INDEX_ID">>

Init ==
  /\ pc = "parse_args"
  /\ \E c \in CommandLines :
       /\ debug = c.debug
       /\ outfile = c.outfile
       /\ language = c.language
       /\ direction = c.direction
  /\ infiles \in (SeqsUpTo(Paths, MaxInfiles) \ {<<>>})
  /\ workdir = "none"
  /\ registered = FALSE
  /\ infilenames = <<>>
  /\ ei = 1
  /\ fi = 1
  /\ ln = 0
  /\ currstart = 0
  /\ stdout = <<>>
  /\ stderr = <<>>
  /\ outf = <<>>
  /\ total = 0
  /\ docs = <<>>
  /\ exitCause = "running"
  /\ exitStatus = 0

(* ------------------------------ streams ------------------------------- *)

\* outfile.write: the output destination is standard output unless --outfile
\* names a file
OutWrite(items) ==
  IF outfile = "stdout"
  THEN stdout' = stdout \o items /\ UNCHANGED outf
  ELSE outf' = outf \o items /\ UNCHANGED stdout

\* what the output destination holds
Output == IF outfile = "stdout" THEN stdout ELSE outf

Warn(kind, path) == stderr' = Append(stderr, [k |-> kind, path |-> path])

(* ----------------------------- the output ----------------------------- *)

\* '<?xml version="1.0" encoding="UTF-8"?>'
XmlDeclaration == [k |-> "XMLDECL"]
\* '<!DOCTYPE ELISA_LRLP_CORPUS SYSTEM "elisa.lrlp.v1.1.dtd">'
Doctype == [k |-> "DOCTYPE"]
\* '<ELISA_LRLP_CORPUS source_language="{}">'
RootOpen(lang) == [k |-> "ROOT_OPEN", source_language |-> Interpolate(lang)]
\* '<DOCUMENT id="{}">'
DocumentOpen(fullid) == [k |-> "DOC_OPEN", id |-> Interpolate(fullid)]
\* '  <{label}>{value}</{label}>'
Field(label, value) == [k |-> "FIELD", label |-> label, text |-> Interpolate(value)]
\* '  <DIRECTION>%s</DIRECTION>'
Direction(dir) == [k |-> "DIRECTION", text |-> Interpolate(dir)]
DocumentClose == [k |-> "DOC_CLOSE"]
RootClose == [k |-> "ROOT_CLOSE"]
\* print(workdir)
WorkdirLine == [k |-> "WORKDIR"]

\* hashlib.md5(line.encode('utf-8')).hexdigest(), left uninterpreted
md5(line) == <<"md5", line>>

SegmentPrefix == <<"s", "e", "g", "m", "e", "n", "t", "-">>

\* the SEGMENT element with its line counted from 1
SegmentOneBased(fullid, n, start, end, filename, line) ==
  [k |-> "SEGMENT",
   id |-> EscAttr(fullid \o <<".">> \o str(n + 1)),
   start_char |-> EscAttr(str(start)),
   end_char |-> EscAttr(str(end)),
   FULL_ID_SOURCE |-> EscText(fullid),
   ORIG_SEG_ID |-> EscText(SegmentPrefix \o str(n + 1)),
   ORIG_FILENAME |-> EscText(filename),
   MD5_HASH_SOURCE |-> md5(line),
   ORIG_RAW_SOURCE |-> EscText(line)]

\* the SEGMENT element lxml serialises for line n of a file
Segment(fullid, n, start, end, filename, line) ==
  [k |-> "SEGMENT",
   id |-> EscAttr(fullid \o <<".">> \o str(n)),
   start_char |-> EscAttr(str(start)),
   end_char |-> EscAttr(str(end)),
   FULL_ID_SOURCE |-> EscText(fullid),
   ORIG_SEG_ID |-> EscText(SegmentPrefix \o str(n)),
   ORIG_FILENAME |-> EscText(filename),
   MD5_HASH_SOURCE |-> md5(line),
   ORIG_RAW_SOURCE |-> EscText(line)]

\* ET.SubElement(...).text = ... raises ValueError for such a string
XmlCompatible(s) == \A i \in 1..Len(s) : s[i] \notin XmlInvalid

(* ------------------------------ actions ------------------------------- *)

\* parser.parse_args(): argparse.FileType('w') opens the output destination;
\* a failure is reported by parser.error, which exits with status 2
ParseArgs ==
  /\ pc = "parse_args"
  /\ IF outfile = "unwritable"
     THEN /\ stderr' = Append(stderr, [k |-> "usage", path |-> <<>>])
          /\ pc' = "finalize"
          /\ exitCause' = "sysexit"
          /\ exitStatus' = 2
     ELSE /\ pc' = "mkdtemp"
          /\ UNCHANGED <<stderr, exitCause, exitStatus>>
  /\ UNCHANGED <<args, workdir, registered, infilenames, ei, fi, ln, currstart,
                 stdout, outf, total, docs>>

\* workdir = tempfile.mkdtemp(...)
Mkdtemp ==
  /\ pc = "mkdtemp"
  /\ workdir' = "present"
  /\ pc' = "register"
  /\ UNCHANGED <<args, registered, infilenames, ei, fi, ln, currstart, stdout,
                 stderr, outf, total, docs, exitCause, exitStatus>>

\* if args.debug: print(workdir)  else: atexit.register(cleanwork)
RegisterCleanup ==
  /\ pc = "register"
  /\ IF debug
     THEN stdout' = Append(stdout, WorkdirLine) /\ UNCHANGED registered
     ELSE registered' = TRUE /\ UNCHANGED stdout
  /\ pc' = "resolve"
  /\ UNCHANGED <<args, workdir, infilenames, ei, fi, ln, currstart, stderr, outf,
                 total, docs, exitCause, exitStatus>>

\* every name a directory lists, joined to the entry
FilesOfAnyKind(entry, names) == [i \in 1..Len(names) |-> join(entry, names[i])]

\* the regular files among the names a directory lists, joined to the entry
RECURSIVE FilesOf(_, _)
FilesOf(entry, names) ==
  IF names = <<>> THEN <<>>
  ELSE (IF isfile(join(entry, Head(names))) THEN <<join(entry, Head(names))>> ELSE <<>>)
       \o FilesOf(entry, Tail(names))

\* one turn of: for entry in args.infiles
ResolveEntry ==
  /\ pc = "resolve"
  /\ ei <= Len(infiles)
  /\ LET entry == infiles[ei] IN
     IF ~exists(entry)
     THEN /\ Warn("notfound", entry)
          /\ ei' = ei + 1
          /\ UNCHANGED <<infilenames, pc, exitCause, exitStatus>>
     ELSE IF isfile(entry)
     THEN /\ infilenames' = Append(infilenames, entry)
          /\ ei' = ei + 1
          /\ UNCHANGED <<stderr, pc, exitCause, exitStatus>>
     ELSE IF ListdirRaises(entry)
     THEN \* nothing catches the OSError of os.listdir
          /\ pc' = "finalize"
          /\ exitCause' = "exception"
          /\ exitStatus' = 1
          /\ UNCHANGED <<infilenames, ei, stderr>>
     ELSE /\ infilenames' = infilenames \o FilesOf(entry, Listing(entry))
          /\ ei' = ei + 1
          /\ UNCHANGED <<stderr, pc, exitCause, exitStatus>>
  /\ UNCHANGED <<args, workdir, registered, fi, ln, currstart, stdout, outf, total,
                 docs>>

\* the three writes after the resolution loop
WriteHeader ==
  /\ pc = "resolve"
  /\ ei > Len(infiles)
  /\ OutWrite(<<XmlDeclaration, Doctype, RootOpen(language)>>)
  /\ pc' = "file"
  /\ UNCHANGED <<args, workdir, registered, infilenames, ei, fi, ln, currstart,
                 stderr, total, docs, exitCause, exitStatus>>

\* fullid = os.path.basename(infile).split('.')[0]
FullId(infile) == split(basename(infile), ".")[1]

\* idtoks = fullid.split('_')
IdToks(infile) == split(FullId(infile), "_")

\* at most as many tokens as fields
ProperNameAtMost(infile) == Len(IdToks(infile)) <= Len(fullidfields)

\* len(idtoks) == len(fullidfields)
ProperName(infile) == Len(IdToks(infile)) = Len(fullidfields)

\* zip(a, b): the pairs, as many as the shorter has
zip(a, b) ==
  [i \in 1..(IF Len(a) <= Len(b) THEN Len(a) ELSE Len(b)) |-> <<a[i], b[i]>>]

\* one turn of: for infile in infilenames, up to the line loop
StartFile ==
  /\ pc = "file"
  /\ fi <= Len(infilenames)
  /\ LET infile == infilenames[fi] IN
     IF ~ProperName(infile)
     THEN /\ Warn("naming", infile)
          /\ fi' = fi + 1
          /\ docs' = Append(docs, [path |-> infile, status |-> "rejected", lines |-> <<>>])
          /\ UNCHANGED <<pc, stdout, outf, ln, currstart>>
     ELSE /\ OutWrite(<<DocumentOpen(FullId(infile))>>
                      \o [i \in 1..Len(zip(fullidfields, IdToks(infile))) |->
                            Field(zip(fullidfields, IdToks(infile))[i][1],
                                  zip(fullidfields, IdToks(infile))[i][2])]
                      \o <<Direction(direction)>>)
          /\ currstart' = 0
          /\ ln' = 0
          /\ pc' = "open"
          /\ docs' = Append(docs, [path |-> infile, status |-> "open", lines |-> <<>>])
          /\ UNCHANGED <<stderr, fi>>
  /\ UNCHANGED <<args, workdir, registered, infilenames, ei, total, exitCause,
                 exitStatus>>

SetDoc(status, lines) ==
  docs' = [docs EXCEPT ![Len(docs)] = [@ EXCEPT !.status = status, !.lines = lines]]

\* prepfile(infile, 'r') returns the open file
OpenInput ==
  /\ pc = "open"
  /\ pc' = "lines"
  /\ UNCHANGED <<args, workdir, registered, infilenames, ei, fi, ln, currstart,
                 stdout, stderr, outf, total, docs, exitCause, exitStatus>>

\* prepfile(infile, 'r') raises: the except clause of the line loop reports it
OpenFails ==
  /\ pc = "open"
  /\ Warn("problem", infilenames[fi])
  /\ SetDoc("failed", docs[Len(docs)].lines)
  /\ pc' = "close"
  /\ UNCHANGED <<args, workdir, registered, infilenames, ei, fi, ln, currstart,
                 stdout, outf, total, exitCause, exitStatus>>

\* currend = currstart+len(line)-1
CurrEnd(start, line) == start + Len(line) - 1

\* the cursor advanced by one character only
NextStartOneGap(currend) == currend + 1

\* currstart=currend+2
NextStart(currend) == currend + 2

\* one turn of the line loop on a line the file yields
ProcessLine ==
  /\ pc = "lines"
  /\ total < MaxTotalLines
  /\ \E raw \in RawLines :
       LET infile == infilenames[fi]
           line == strip(raw)
           currend == CurrEnd(currstart, line)
       IN  /\ currstart' = NextStart(currend)
           /\ total' = total + 1
           /\ IF XmlCompatible(line)
              THEN /\ OutWrite(<<Segment(FullId(infile), ln, currstart, currend,
                                         basename(infile), line)>>)
                   /\ ln' = ln + 1
                   /\ SetDoc("open", Append(docs[Len(docs)].lines, raw))
                   /\ UNCHANGED <<pc, stderr>>
              ELSE /\ Warn("problem", infile)
                   /\ SetDoc("failed", Append(docs[Len(docs)].lines, raw))
                   /\ pc' = "close"
                   /\ UNCHANGED <<ln, stdout, outf>>
  /\ UNCHANGED <<args, workdir, registered, infilenames, ei, fi, exitCause,
                 exitStatus>>

\* the failure leaves the loop over the files without closing the document
ReadFailsAbandon ==
  /\ pc = "lines"
  /\ Warn("problem", infilenames[fi])
  /\ SetDoc("failed", docs[Len(docs)].lines)
  /\ fi' = fi + 1
  /\ pc' = "file"
  /\ UNCHANGED <<args, workdir, registered, infilenames, ei, ln, currstart,
                 stdout, outf, total, exitCause, exitStatus>>

\* the iteration over the file raises (a read error, bytes that are no UTF-8,
\* a KeyboardInterrupt): the bare except reports it
ReadFails ==
  /\ pc = "lines"
  /\ Warn("problem", infilenames[fi])
  /\ SetDoc("failed", docs[Len(docs)].lines)
  /\ pc' = "close"
  /\ UNCHANGED <<args, workdir, registered, infilenames, ei, fi, ln, currstart,
                 stdout, outf, total, exitCause, exitStatus>>

\* the file has no further line
EndOfFile ==
  /\ pc = "lines"
  /\ SetDoc("complete", docs[Len(docs)].lines)
  /\ pc' = "close"
  /\ UNCHANGED <<args, workdir, registered, infilenames, ei, fi, ln, currstart,
                 stdout, stderr, outf, total, exitCause, exitStatus>>

\* outfile.write("</DOCUMENT>\n")
CloseDocument ==
  /\ pc = "close"
  /\ OutWrite(<<DocumentClose>>)
  /\ fi' = fi + 1
  /\ pc' = "file"
  /\ UNCHANGED <<args, workdir, registered, infilenames, ei, ln, currstart, stderr,
                 total, docs, exitCause, exitStatus>>

\* outfile.write("</ELISA_LRLP_CORPUS>\n"), and main() returns
WriteFooter ==
  /\ pc = "file"
  /\ fi > Len(infilenames)
  /\ OutWrite(<<RootClose>>)
  /\ pc' = "finalize"
  /\ exitCause' = "return"
  /\ exitStatus' = 0
  /\ UNCHANGED <<args, workdir, registered, infilenames, ei, fi, ln, currstart,
                 stderr, total, docs>>

\* def cleanwork(): shutil.rmtree(workdir, ignore_errors=True)
cleanwork == workdir' = "removed"

\* cleanwork called at the end of main() only
FinalizeOnReturn ==
  /\ pc = "finalize"
  /\ IF registered /\ exitCause = "return" THEN cleanwork ELSE UNCHANGED workdir
  /\ pc' = "exited"
  /\ UNCHANGED <<args, registered, infilenames, ei, fi, ln, currstart, stdout,
                 stderr, outf, total, docs, exitCause, exitStatus>>

\* the interpreter shuts down and runs the functions registered with atexit
Finalize ==
  /\ pc = "finalize"
  /\ IF registered THEN cleanwork ELSE UNCHANGED workdir
  /\ pc' = "exited"
  /\ UNCHANGED <<args, registered, infilenames, ei, fi, ln, currstart, stdout,
                 stderr, outf, total, docs, exitCause, exitStatus>>

\* places of main() outside its try blocks
Unprotected == {"parse_args", "mkdtemp", "register", "resolve", "file", "close"}

\* a KeyboardInterrupt (SIGINT) outside the try blocks is an uncaught exception
Interrupt ==
  /\ pc \in Unprotected
  /\ pc' = "finalize"
  /\ exitCause' = "exception"
  /\ exitStatus' = 1
  /\ UNCHANGED <<args, workdir, registered, infilenames, ei, fi, ln, currstart,
                 stdout, stderr, outf, total, docs>>

\* a signal Python does not handle (SIGKILL, SIGTERM) ends the process at once
Kill ==
  /\ pc # "exited"
  /\ pc' = "exited"
  /\ exitCause' = "signal"
  /\ exitStatus' = 137
  /\ UNCHANGED <<args, workdir, registered, infilenames, ei, fi, ln, currstart,
                 stdout, stderr, outf, total, docs>>

Next ==
  \/ ParseArgs
  \/ Mkdtemp
  \/ RegisterCleanup
  \/ ResolveEntry
  \/ WriteHeader
  \/ StartFile
  \/ OpenInput
  \/ OpenFails
  \/ ProcessLine
  \/ ReadFails
  \/ EndOfFile
  \/ CloseDocument
  \/ WriteFooter
  \/ Finalize

Spec == Init /\ [][Next]_vars

\* the program together with the signals its environment may send it
NextSignals ==
  \/ Next
  \/ Interrupt
  \/ Kill

SpecSignals == Init /\ [][NextSignals]_vars

(* ------------------------- reading the output ------------------------- *)

\* the entity references an XML parser resolves here, with their characters
Entities ==
  <<[ref |-> <<"&", "a", "m", "p", ";">>, char |-> "&"],
    [ref |-> <<"&", "l", "t", ";">>, char |-> "<"],
    [ref |-> <<"&", "g", "t", ";">>, char |-> ">"],
    [ref |-> <<"&", "q", "u", "o", "t", ";">>, char |-> "\""],
    [ref |-> <<"&", "#", "1", "0", ";">>, char |-> "\n"],
    [ref |-> <<"&", "#", "9", ";">>, char |-> "\t"]>>

\* the reference ref stands at position i of raw
RefAt(raw, i, ref) ==
  i + Len(ref) - 1 <= Len(raw) /\ SubSeq(raw, i, i + Len(ref) - 1) = ref

\* the number of the entity whose reference stands at position i, or 0
RECURSIVE EntityAt(_, _, _)
EntityAt(raw, i, n) ==
  IF n > Len(Entities) THEN 0
  ELSE IF RefAt(raw, i, Entities[n].ref) THEN n
  ELSE EntityAt(raw, i, n + 1)

\* what an XML parser reads back from the written form of a text (inAttr
\* FALSE) or of a double-quoted attribute value (inAttr TRUE), from position
\* i on; the result ends with "MALFORMED" where the written form is no
\* well-formed value
RECURSIVE UnescapeFrom(_, _, _)
UnescapeFrom(raw, i, inAttr) ==
  LET marks == {j \in i..Len(raw) : raw[j] \in {"&", "<", "\"", "\n", "\t"}} IN
  IF marks = {} THEN SubSeq(raw, i, Len(raw))
  ELSE LET m == CHOOSE j \in marks : \A k \in marks : j <= k
           c == raw[m]
           plain == SubSeq(raw, i, m - 1)
       IN  IF c = "&"
           THEN LET n == EntityAt(raw, m, 1)
                IN  IF n = 0 THEN plain \o <<"MALFORMED">>
                    ELSE plain \o <<Entities[n].char>>
                         \o UnescapeFrom(raw, m + Len(Entities[n].ref), inAttr)
           ELSE IF c = "<" \/ (inAttr /\ c = "\"")
           THEN plain \o <<"MALFORMED">>
           ELSE IF inAttr
           THEN plain \o <<" ">> \o UnescapeFrom(raw, m + 1, inAttr)
           ELSE plain \o <<c>> \o UnescapeFrom(raw, m + 1, inAttr)

Unescape(raw, inAttr) == UnescapeFrom(raw, 1, inAttr)

ReadText(raw) == Unescape(raw, FALSE)
ReadAttr(raw) == Unescape(raw, TRUE)

DigitValue(c) == CHOOSE d \in 0..9 : Digits[d + 1] = c

RECURSIVE ReadNat(_)
ReadNat(s) ==
  IF s = <<>> THEN 0
  ELSE ReadNat(SubSeq(s, 1, Len(s) - 1)) * 10 + DigitValue(s[Len(s)])

\* the integer a decimal string denotes
ReadInt(s) == IF s # <<>> /\ Head(s) = "-" THEN 0 - ReadNat(Tail(s)) ELSE ReadNat(s)

IsOpenAt(i) == Output[i].k = "DOC_OPEN"

\* positions of the DOCUMENT open tags in the output, in order
Opens == SelectSeq([i \in 1..Len(Output) |-> i], IsOpenAt)

\* per DOCUMENT open tag, in order: the items from it up to the next one
Blocks ==
  LET opens == Opens
  IN  [d \in 1..Len(opens) |->
         SubSeq(Output, opens[d],
                IF d < Len(opens) THEN opens[d + 1] - 1 ELSE Len(Output))]

IsSegment(item) == item.k = "SEGMENT"

SegmentsIn(block) == SelectSeq(block, IsSegment)

\* the part of a basename before its first "."
Stem(base) ==
  LET dots == {i \in 1..Len(base) : base[i] = "."} IN
  IF dots = {} THEN base
  ELSE SubSeq(base, 1, (CHOOSE i \in dots : \A j \in dots : i <= j) - 1)

\* the naming convention: five tokens, that is four "_", before the first "."
FiveTokens(path) ==
  LET stem == Stem(basename(path))
  IN  Cardinality({i \in 1..Len(stem) : stem[i] = "_"}) = 4

IsAccepted(doc) == FiveTokens(doc.path)

\* the files the loop has reached whose names follow the convention
Accepted == SelectSeq(docs, IsAccepted)

\* the sum over the first k lines of (length of the stripped line + 1)
RECURSIVE SumBefore(_, _)
SumBefore(lines, k) ==
  IF k = 0 THEN 0 ELSE SumBefore(lines, k - 1) + Len(strip(lines[k])) + 1

StartChar(seg) == ReadInt(ReadAttr(seg.start_char))
EndChar(seg) == ReadInt(ReadAttr(seg.end_char))

(* ------------------------------- claims ------------------------------- *)

\* C1: in every file, the segment of line k starts at the sum over the
\* earlier lines of (stripped length + 1) and ends at start + stripped
\* length - 1; so the first segment starts at 0 whatever came before the
\* file, consecutive segments are 2 apart, and an empty line ends at start - 1
C1_Offsets ==
  LET accepted == Accepted
      blocks == Blocks
  IN
  /\ Len(blocks) = Len(accepted)
  /\ \A d \in 1..Len(accepted) :
       LET segs == SegmentsIn(blocks[d])
           lines == accepted[d].lines
       IN  /\ Len(segs) <= Len(lines)
           /\ \A k \in 1..Len(segs) :
                LET start == StartChar(segs[k])
                    end == EndChar(segs[k])
                    length == Len(strip(lines[k]))
                IN  /\ start = SumBefore(lines, k - 1)
                    /\ end = start + length - 1
                    /\ k = 1 => start = 0
                    /\ k > 1 => start = EndChar(segs[k - 1]) + 2
                    /\ length = 0 => end = start - 1

\* a second file, after one that failed, has the segments 0..4 and 6..5 (an
\* empty line)
C1_Witness ==
  /\ Len(Accepted) = 2
  /\ Len(Blocks) = 2
  /\ Accepted[1].status = "failed"
  /\ Accepted[2].lines = <<LineMarkup, LineEmpty>>
  /\ LET segs == SegmentsIn(Blocks[2])
     IN  /\ Len(segs) = 2
         /\ StartChar(segs[1]) = 0 /\ EndChar(segs[1]) = 4
         /\ StartChar(segs[2]) = 6 /\ EndChar(segs[2]) = 5

\* what one path of --infiles contributes to the resolved list
ExpectedEntry(path) ==
  CASE Kind(path) = "file" -> <<path>>
    [] Kind(path) = "dir" ->
         LET IsRegular(name) == Kind(join(path, name)) = "file"
             kept == SelectSeq(Listing(path), IsRegular)
         IN  [i \in 1..Len(kept) |-> join(path, kept[i])]
    [] OTHER -> <<>>

RECURSIVE ExpectedResolved(_)
ExpectedResolved(paths) ==
  IF paths = <<>> THEN <<>>
  ELSE ExpectedEntry(Head(paths)) \o ExpectedResolved(Tail(paths))

IsNotFound(w) == w.k = "notfound"
IsMissing(path) == Kind(path) = "missing"
Range(s) == {s[i] : i \in 1..Len(s)}
AfterResolution == {"file", "open", "lines", "close"}

\* C7: the resolved list is the concatenation, in the order of the paths
\* given, of nothing and one warning for a missing path, the path for a
\* regular file, the regular files immediately inside for a directory, in
\* listing order and none from a subdirectory; a missing path does not stop
\* the resolution of the later paths
C7_ResolvedList ==
  LET handled == SubSeq(infiles, 1, ei - 1) IN
  /\ infilenames = ExpectedResolved(handled)
  /\ \A f \in Range(infilenames) :
       /\ Kind(f) = "file"
       /\ f \in Range(infiles) \/ (Len(f) = 2 /\ <<f[1]>> \in Range(infiles))
  /\ LET notfound == SelectSeq(stderr, IsNotFound)
         missing == SelectSeq(handled, IsMissing)
     IN  /\ Len(notfound) = Len(missing)
         /\ \A i \in 1..Len(missing) : notfound[i].path = missing[i]
  /\ (pc \in AfterResolution \/ exitCause = "return") => ei = Len(infiles) + 1
  /\ (exitCause = "exception" /\ ei <= Len(infiles)) => ~IsMissing(infiles[ei])

\* a missing path followed by a directory: the directory's two regular
\* files are resolved, its subdirectory is not entered
C7_Witness ==
  /\ pc = "file"
  /\ infiles = <<PathMissing, PathDir>>
  /\ infilenames = <<join(PathDir, NameFour), join(PathDir, NameSix)>>
  /\ Len(SelectSeq(stderr, IsNotFound)) = 1

Printed == stdout # <<>> /\ stdout[1] = WorkdirLine

\* C8 as stated: once the temporary directory exists, every exit of the
\* process leaves it removed when the debug flag is off, and leaves it in
\* place with its path printed when the flag is on
C8_RemovedOnEveryExit ==
  (pc = "exited" /\ workdir # "none") =>
     IF debug THEN workdir = "present" /\ Printed ELSE workdir = "removed"

\* C8 amended: with the debug flag off, once cleanwork is registered every
\* exit through the interpreter's shutdown (return, uncaught exception,
\* sys.exit) leaves the directory removed, and only a signal that ends the
\* process outright leaves it behind; with the flag on the directory is
\* never removed and its path is printed before the inputs are resolved
C8_RemovedOnInterpreterExit ==
  /\ debug => workdir # "removed" /\ ~registered
  /\ (debug /\ (pc \in AfterResolution \/ pc = "resolve")) => Printed
  /\ (~debug /\ (pc \in AfterResolution \/ pc = "resolve")) => registered
  /\ (pc = "exited" /\ registered /\ exitCause # "signal") => workdir = "removed"
  /\ workdir = "removed" => pc = "exited"

\* the directory is removed on an exit by an uncaught exception
C8_Witness ==
  /\ pc = "exited"
  /\ exitCause = "exception"
  /\ registered
  /\ workdir = "removed"

\* the DocumentId of a file: its basename up to the first "."
DocumentId(path) == Stem(basename(path))

IsNaming(w) == w.k = "naming"
IsProblem(w) == w.k = "problem"
IsRejected(doc) == ~FiveTokens(doc.path)
HasFailed(doc) == doc.status = "failed"
PathOf(recs) == [i \in 1..Len(recs) |-> recs[i].path]
InLineLoop == {"open", "lines", "close"}

\* the file the loop reached as the i-th has left the line loop
Finished(i) == i < Len(docs) \/ pc \notin InLineLoop

\* C2: a resolved file whose basename, cut at the first ".", has not exactly
\* five "_"-separated tokens gets no DOCUMENT element and exactly one warning
\* naming it, and the run goes on: the files are taken in order, every later
\* file with a proper name gets its DOCUMENT, and the root element is closed
C2_BadNameSkipped ==
  LET accepted == Accepted
      blocks == Blocks
  IN
  /\ PathOf(docs) = SubSeq(infilenames, 1, Len(docs))
  /\ Len(blocks) = Len(accepted)
  /\ \A d \in 1..Len(accepted) : blocks[d][1].id = DocumentId(accepted[d].path)
  /\ PathOf(SelectSeq(stderr, IsNaming)) = PathOf(SelectSeq(docs, IsRejected))
  /\ \A i \in 1..Len(docs) : IsRejected(docs[i]) <=> docs[i].status = "rejected"
  /\ pc = "file" => Len(docs) = fi - 1
  /\ docs # <<>> => exitCause \in {"running", "return"}
  /\ exitCause = "return" =>
       /\ Len(docs) = Len(infilenames)
       /\ Output[Len(Output)] = RootClose
       /\ Cardinality({i \in 1..Len(Output) : Output[i].k = "DOC_CLOSE"}) = Len(accepted)

\* a four-token name and a six-token name are skipped with one warning each,
\* the five-token name after them gets its DOCUMENT, and the run ends with
\* the root element closed
C2_Witness ==
  /\ exitCause = "return"
  /\ infiles = <<PathDir, PathFile>>
  /\ Len(SelectSeq(stderr, IsNaming)) = 2
  /\ Len(Blocks) = 1
  /\ Blocks[1][1].id = SubSeq(NameValid, 1, 9)
  /\ Output[Len(Output)] = RootClose

\* the number of lines of a file that were written as segments: those before
\* the first line lxml refuses
RECURSIVE GoodPrefix(_)
GoodPrefix(lines) ==
  IF lines = <<>> \/ ~XmlCompatible(strip(Head(lines))) THEN 0
  ELSE 1 + GoodPrefix(Tail(lines))

\* C3: a failure while opening, reading or transforming a properly named
\* file ends that file only: no further line of it is processed, one warning
\* names it, its DOCUMENT is still closed, the segments written before stay,
\* and the later files are processed
C3_FailureEndsFileOnly ==
  LET accepted == Accepted
      blocks == Blocks
  IN
  /\ Len(blocks) = Len(accepted)
  /\ PathOf(SelectSeq(stderr, IsProblem)) = PathOf(SelectSeq(docs, HasFailed))
  /\ \A i \in 1..Len(docs) :
       /\ GoodPrefix(docs[i].lines) < Len(docs[i].lines) =>
            (HasFailed(docs[i]) /\ GoodPrefix(docs[i].lines) = Len(docs[i].lines) - 1)
       /\ HasFailed(docs[i]) => (IsAccepted(docs[i]) /\ (i = Len(docs) => pc \notin {"open", "lines"}))
  /\ \A d \in 1..Len(accepted) :
       HasFailed(accepted[d]) =>
         LET written == GoodPrefix(accepted[d].lines) IN
         /\ Len(SegmentsIn(blocks[d])) = written
         /\ (d < Len(accepted) \/ pc \notin InLineLoop) =>
              /\ Len(blocks[d]) >= 8 + written
              /\ blocks[d][8 + written] = DocumentClose
  /\ PathOf(docs) = SubSeq(infilenames, 1, Len(docs))
  /\ (\E i \in 1..Len(docs) : HasFailed(docs[i])) => exitCause \in {"running", "return"}
  /\ pc \in InLineLoop => Len(docs) = fi
  /\ exitCause = "return" => Len(docs) = Len(infilenames)

\* the first file failed after one segment, by a read error, and the second
\* was processed to its end
C3_Witness ==
  /\ exitCause = "return"
  /\ Len(Accepted) = 2
  /\ Len(Blocks) = 2
  /\ Accepted[1].status = "failed"
  /\ Accepted[1].lines = <<LineMarkup>>
  /\ Len(SegmentsIn(Blocks[1])) = 1
  /\ Len(Blocks[1]) >= 9
  /\ Blocks[1][9] = DocumentClose
  /\ Accepted[2].status = "complete"
  /\ Len(SegmentsIn(Blocks[2])) = 2

SegmentParts ==
  {"k", "id", "start_char", "end_char", "FULL_ID_SOURCE", "ORIG_SEG_ID",
   "ORIG_FILENAME", "MD5_HASH_SOURCE", "ORIG_RAW_SOURCE"}

\* C9: the segments of a file are those of its lines 0..m-1, in this order
\* right after DIRECTION, each complete with SOURCE id "{DocumentId}.{k}",
\* ORIG_SEG_ID "segment-{k}" and the five children; m is the number of lines
\* when none fails and the index of the first failing line otherwise; the
\* failing line and the lines after it leave nothing in the output
C9_SegmentsArePrefix ==
  LET accepted == Accepted
      blocks == Blocks
  IN
  /\ Len(blocks) = Len(accepted)
  /\ \A d \in 1..Len(accepted) :
       LET block == blocks[d]
           lines == accepted[d].lines
           m == GoodPrefix(lines)
           id == DocumentId(accepted[d].path)
       IN  /\ Len(SegmentsIn(block)) = m
           /\ Len(block) >= 7 + m
           /\ \A j \in (8 + m)..Len(block) : block[j].k \in {"DOC_CLOSE", "ROOT_CLOSE"}
           /\ IF HasFailed(accepted[d])
              THEN m = Len(lines) \/ (m = Len(lines) - 1 /\ ~XmlCompatible(strip(lines[m + 1])))
              ELSE m = Len(lines)
           /\ \A k \in 1..m :
                LET seg == block[7 + k]
                    line == strip(lines[k])
                IN  /\ DOMAIN seg = SegmentParts
                    /\ seg.k = "SEGMENT"
                    /\ ReadAttr(seg.id) = id \o <<".">> \o str(k - 1)
                    /\ ReadText(seg.ORIG_SEG_ID) = SegmentPrefix \o str(k - 1)
                    /\ seg.MD5_HASH_SOURCE = md5(line)
                    /\ ReadText(seg.ORIG_RAW_SOURCE) = line

\* a file whose third line cannot be written has the segments of its first
\* two lines and is closed
C9_Witness ==
  /\ Len(Accepted) = 1
  /\ Len(Blocks) = 1
  /\ Accepted[1].lines = <<LineMarkup, LineEmpty, LineControl>>
  /\ Len(SegmentsIn(Blocks[1])) = 2
  /\ Len(Blocks[1]) >= 10
  /\ Blocks[1][10] = DocumentClose

Ended == pc = "exited"

\* C4 as stated: once the output destination is open, whatever the input
\* paths are, the run reaches its end and writes the closing root tag; a
\* destination that cannot be opened ends the run before any XML is written,
\* with a non-zero exit status
C4_OnlyOutputOpenIsFatal ==
  /\ (Ended /\ outfile # "unwritable") =>
       /\ exitCause = "return"
       /\ Output # <<>>
       /\ Output[Len(Output)] = RootClose
  /\ outfile = "unwritable" =>
       /\ stdout = <<>> /\ outf = <<>>
       /\ Ended => exitStatus # 0

\* C5 as stated: every value written reads back from the output as the
\* value it was: source_language, the DOCUMENT id, the five metadata fields,
\* DIRECTION, the SOURCE id, FULL_ID_SOURCE, ORIG_FILENAME, ORIG_RAW_SOURCE
C5_ValuesReadBack ==
  LET accepted == Accepted
      blocks == Blocks
  IN
  /\ \A i \in 1..Len(Output) :
       Output[i].k = "ROOT_OPEN" => ReadAttr(Output[i].source_language) = language
  /\ Len(blocks) = Len(accepted)
  /\ \A d \in 1..Len(accepted) :
       LET block == blocks[d]
           id == DocumentId(accepted[d].path)
           tokens == split(id, "_")
           lines == accepted[d].lines
       IN  /\ ReadAttr(block[1].id) = id
           /\ \A i \in 1..5 : ReadText(block[1 + i].text) = tokens[i]
           /\ ReadText(block[7].text) = direction
           /\ \A k \in 1..Len(SegmentsIn(block)) :
                LET seg == SegmentsIn(block)[k] IN
                /\ ReadAttr(seg.id) = id \o <<".">> \o str(k - 1)
                /\ ReadText(seg.FULL_ID_SOURCE) = id
                /\ ReadText(seg.ORIG_FILENAME) = basename(accepted[d].path)
                /\ ReadText(seg.ORIG_RAW_SOURCE) = strip(lines[k])

\* what an item of the output is, without its escaped values
Shape(item) ==
  CASE item.k = "DOC_OPEN" -> <<"DOC_OPEN", item.id>>
    [] item.k = "FIELD" -> <<"FIELD", item.label>>
    [] item.k = "SEGMENT" -> <<"SEGMENT", ReadText(item.ORIG_SEG_ID)>>
    [] OTHER -> <<item.k>>

\* the items of the DOCUMENT block of a file: complete when closed is TRUE
ExpectedBlock(doc, closed) ==
  IF IsRejected(doc) THEN <<>>
  ELSE <<<<"DOC_OPEN", DocumentId(doc.path)>>>>
       \o [i \in 1..5 |-> <<"FIELD", fullidfields[i]>>]
       \o <<<<"DIRECTION">>>>
       \o [k \in 1..GoodPrefix(doc.lines) |-> <<"SEGMENT", SegmentPrefix \o str(k - 1)>>]
       \o (IF closed THEN <<<<"DOC_CLOSE">>>> ELSE <<>>)

RECURSIVE ExpectedBlocks(_)
ExpectedBlocks(i) ==
  IF i = 0 THEN <<>>
  ELSE ExpectedBlocks(i - 1) \o ExpectedBlock(docs[i], i < Len(docs) \/ pc \notin InLineLoop)

\* the output a run is to have written by now
ExpectedOutput ==
  IF pc \in AfterResolution \/ exitCause = "return"
  THEN <<<<"XMLDECL">>, <<"DOCTYPE">>, <<"ROOT_OPEN">>>>
       \o ExpectedBlocks(Len(docs))
       \o (IF exitCause = "return" THEN <<<<"ROOT_CLOSE">>>> ELSE <<>>)
  ELSE <<>>

\* C6 as stated: in every run the output is the XML declaration, DOCTYPE and
\* root open tag, one DOCUMENT block per properly named resolved file in
\* order (open tag with the DocumentId, the five fields, DIRECTION, the
\* segments in line order, close tag), then the root close tag; at every
\* point what is written is a properly nested beginning of that, and at the
\* end of the run every open tag is closed
C6_OutputSequence ==
  /\ [i \in 1..Len(Output) |-> Shape(Output[i])] = ExpectedOutput
  /\ PathOf(docs) = SubSeq(infilenames, 1, Len(docs))
  /\ (Ended /\ outfile # "unwritable") =>
       /\ Len(docs) = Len(infilenames)
       /\ Output # <<>>
       /\ Output[Len(Output)] = RootClose

IsWarning(item) == item.k \in {"usage", "notfound", "naming", "problem"}

\* C10 as stated: whatever the flags and the inputs, the output destination
\* starts with the XML declaration and ends with the closing root tag, and
\* neither a warning nor the path of the temporary directory is written to it
C10_OutputIsOnlyXml ==
  /\ Output # <<>> => Output[1] = XmlDeclaration
  /\ (Ended /\ outfile # "unwritable") =>
       /\ Output # <<>>
       /\ Output[Len(Output)] = RootClose
  /\ \A i \in 1..Len(Output) : Output[i] # WorkdirLine /\ ~IsWarning(Output[i])

IsXmlItem(item) == item # WorkdirLine

\* what holds of the order of the output: the items outfile.write wrote are
\* always a properly nested beginning of the expected sequence, and the whole
\* of it when main() returns
XmlWritesInOrder ==
  LET xml == SelectSeq(Output, IsXmlItem)
  IN  /\ [i \in 1..Len(xml) |-> Shape(xml[i])] = ExpectedOutput
      /\ exitCause = "return" => (Len(docs) = Len(infilenames) /\ xml[Len(xml)] = RootClose)

====
